---- MODULE Spec2Model ----
(***************************************************************************)
(* A model of the word-guessing game of src/src/wordle.rs: the Wordle      *)
(* object (secret word, word list, history of classified guesses, solved   *)
(* flag), its submit operation guess_word with the two-pass scoring, and   *)
(* its queries.  A string is a sequence of characters; a character is a    *)
(* one-letter string, or "U+XXXX" for a character outside ASCII.           *)
(***************************************************************************)
EXTENDS Integers, Sequences, FiniteSets, TLC

VARIABLES
    settings,   \* Wordle.settings: [word_length, max_guesses]
    word_list,  \* Wordle.word_list
    word,       \* Wordle.word, the secret
    guesses,    \* Wordle.guesses: the history of classified guesses
    solved,     \* Wordle.solved
    debug,      \* whether the build sets the cfg flag `debug`
    input,      \* the argument of the latest guess_word call
    outcome,    \* how the latest guess_word call ended
    pc,         \* where main stands; "api" when guess_word is called directly
    stdout      \* the outcome messages main has printed

vars == <<settings, word_list, word, guesses, solved, debug, input, outcome,
          pc, stdout>>

(***************************************************************************)
(* Characters and the string conversions of guess_word's first line.       *)
(***************************************************************************)

\* char::is_whitespace, for the characters of the model
is_whitespace(c) == c \in {" ", "\n"}

\* char::len_utf8: one byte for ASCII, two for U+0080..U+07FF
len_utf8(c) == IF c \in {"U+00E9", "U+00C9", "U+0130", "U+0307"} THEN 2 ELSE 1

\* char::to_lowercase: the lower-case mapping of one character, a string
\* (U+0130 maps to two characters)
char_to_lowercase(c) ==
    CASE c = "A" -> <<"a">>
      [] c = "B" -> <<"b">>
      [] c = "C" -> <<"c">>
      [] c = "R" -> <<"r">>
      [] c = "I" -> <<"i">>
      [] c = "S" -> <<"s">>
      [] c = "E" -> <<"e">>
      [] c = "U+00C9" -> <<"U+00E9">>
      [] c = "U+0130" -> <<"i", "U+0307">>
      [] OTHER -> <<c>>

RECURSIVE trim_start(_)
\* str::trim_start
trim_start(s) ==
    IF s # <<>> /\ is_whitespace(Head(s)) THEN trim_start(Tail(s)) ELSE s

RECURSIVE trim_end(_)
\* str::trim_end
trim_end(s) ==
    IF s # <<>> /\ is_whitespace(s[Len(s)])
    THEN trim_end(SubSeq(s, 1, Len(s) - 1))
    ELSE s

\* str::trim
trim(s) == trim_end(trim_start(s))

RECURSIVE to_lowercase(_)
\* str::to_lowercase
to_lowercase(s) ==
    IF s = <<>> THEN <<>> ELSE char_to_lowercase(Head(s)) \o to_lowercase(Tail(s))

RECURSIVE len(_)
\* str::len: the length in bytes of the UTF-8 encoding
len(s) == IF s = <<>> THEN 0 ELSE len_utf8(Head(s)) + len(Tail(s))

\* guess.trim().to_lowercase()
normalize(raw) == to_lowercase(trim(raw))

(***************************************************************************)
(* Queries.                                                                *)
(***************************************************************************)

guess_amount == Len(guesses)

max_guesses == settings.max_guesses

is_solved == solved

\* is_failed with the comparison off by one
is_failed_late == Len(guesses) > max_guesses

is_failed == Len(guesses) = max_guesses

\* get_cell(x, y), 0-based as in the source; None is <<>>
get_cell(x, y) ==
    IF x + 1 \in DOMAIN guesses /\ y + 1 \in DOMAIN guesses[x + 1]
    THEN <<guesses[x + 1][y + 1]>>
    ELSE <<>>

(***************************************************************************)
(* Scoring: the three loops of guess_word.                                 *)
(***************************************************************************)

None == <<>>
Some(c) == <<c>>

\* s.chars().map(Some).collect()
chars_some(s) == [i \in 1..Len(s) |-> Some(s[i])]

\* Vec::contains
contains(v, x) == \E k \in DOMAIN v : v[k] = x

\* Iterator::position: the first index holding x
position(v, x) == CHOOSE k \in DOMAIN v : v[k] = x /\ \A j \in 1..(k - 1) : v[j] # x

\* the first loop: every character starts as Wrong
all_wrong(try_guess) ==
    [i \in 1..settings.word_length |->
        [letter |-> try_guess[i][1], occurrence |-> "Wrong"]]

\* the test of the second loop asking only whether the secret holds the letter
is_correct_anywhere(st, i) == contains(st.try_word, st.try_guess[i])

\* the test of the second loop
is_correct(st, i) == st.try_guess[i] = st.try_word[i]

\* one iteration of the second loop that leaves the matched letter of the
\* secret in place
correct_step_keep(st, i) ==
    IF is_correct(st, i)
    THEN [completed_guess |->
              [st.completed_guess EXCEPT
                  ![i] = [letter |-> st.try_word[i][1], occurrence |-> "Correct"]],
          try_guess |-> [st.try_guess EXCEPT ![i] = None],
          try_word |-> st.try_word]
    ELSE st

\* one iteration of the second loop
correct_step(st, i) ==
    IF is_correct(st, i)
    THEN [completed_guess |->
              [st.completed_guess EXCEPT
                  ![i] = [letter |-> st.try_word[i][1], occurrence |-> "Correct"]],
          try_guess |-> [st.try_guess EXCEPT ![i] = None],
          try_word |-> [st.try_word EXCEPT ![i] = None]]
    ELSE st

RECURSIVE mark_correct(_, _)
\* the second loop, from index i on
mark_correct(st, i) ==
    IF i > settings.word_length THEN st ELSE mark_correct(correct_step(st, i), i + 1)

\* a Present match that leaves the matched letter of the secret in place
take_present_keep(try_word, g) == try_word

\* the letters of the secret left after a Present match of g
take_present(try_word, g) == [try_word EXCEPT ![position(try_word, Some(g))] = None]

\* one iteration of the third loop
present_step(st, i) ==
    IF st.try_guess[i] # None /\ contains(st.try_word, st.try_guess[i])
    THEN LET g == st.try_guess[i][1] IN
         [completed_guess |->
              [st.completed_guess EXCEPT
                  ![i] = [letter |-> g, occurrence |-> "Present"]],
          try_guess |-> [st.try_guess EXCEPT ![i] = None],
          try_word |-> take_present(st.try_word, g)]
    ELSE st

RECURSIVE mark_present_down(_, _)
\* the third loop run from index i down to the first
mark_present_down(st, i) ==
    IF i < 1 THEN st ELSE mark_present_down(present_step(st, i), i - 1)

\* the third loop serving the positions right to left
mark_present_rtl(st, i) == mark_present_down(st, settings.word_length)

RECURSIVE mark_present(_, _)
\* the third loop, from index i on
mark_present(st, i) ==
    IF i > settings.word_length THEN st ELSE mark_present(present_step(st, i), i + 1)

\* the classified guess guess_word builds for a normalized guess
score(guess) ==
    LET try_word == chars_some(word)
        try_guess == chars_some(guess)
        st0 == [completed_guess |-> all_wrong(try_guess),
                try_guess |-> try_guess,
                try_word |-> try_word]
    IN mark_present(mark_correct(st0, 1), 1).completed_guess

\* whether an index of the loops is out of range: try_guess[i] in the first
\* loop, try_word[i] in the second
index_out_of_range(guess) ==
    \E i \in 1..settings.word_length : i > Len(guess) \/ i > Len(word)

(***************************************************************************)
(* guess_word.                                                             *)
(***************************************************************************)

\* the length check counting characters instead of bytes
wrong_length_chars(guess) == Len(guess) # settings.word_length

\* the length check
wrong_length(guess) == len(guess) # settings.word_length

\* valid_word: cfg!(not(debug)) || self.word_list.contains(word)
valid_word(w) == (~debug) \/ contains(word_list, w)

\* check_win that sets the flag for every scored guess
check_win_always(guess) == TRUE

\* check_win: the value of solved after it
check_win(guess) == IF word = guess THEN TRUE ELSE solved

\* a push at the front of the history
push_guess_front(completed_guess) == <<completed_guess>> \o guesses

\* the history after the push
push_guess(completed_guess) == Append(guesses, completed_guess)

guess_word(raw) ==
    LET guess == normalize(raw) IN
    /\ input' = raw
    /\ UNCHANGED <<settings, word_list, word, debug>>
    /\ IF wrong_length(guess)
       THEN /\ outcome' = "WrongLength"
            /\ UNCHANGED <<guesses, solved>>
       ELSE IF ~valid_word(guess)
       THEN /\ outcome' = "NotAWord"
            /\ UNCHANGED <<guesses, solved>>
       ELSE IF index_out_of_range(guess)
       THEN /\ outcome' = "panic"
            /\ UNCHANGED <<guesses, solved>>
       ELSE /\ outcome' = "scored"
            /\ solved' = check_win(guess)
            /\ guesses' = push_guess(score(guess))

(***************************************************************************)
(* Construction.                                                           *)
(***************************************************************************)

\* Wordle::new for the given settings, word list and choice of the secret
new(word_length, max, list, choice) ==
    /\ settings = [word_length |-> word_length, max_guesses |-> max]
    /\ word_list = list
    /\ word = list[choice]
    /\ guesses = <<>>
    /\ solved = FALSE
    /\ input = <<>>
    /\ outcome = "new"

(***************************************************************************)
(* The game: any sequence of guess_word calls on one instance.             *)
(***************************************************************************)

MaxGuesses == 2
MaxExtraGuesses == 1
DefaultWordLength == 5

rises == <<"r", "i", "s", "e", "s">>
sises == <<"s", "i", "s", "e", "s">>
sires == <<"s", "i", "r", "e", "s">>

\* word lists of five-letter lower-case words, as the built-in list and the
\* lists of the test are
GameLists == { <<rises, sises>>, <<rises>> }

\* caller-supplied lists holding a short, a long, an upper-case and a
\* non-ASCII word
CustomLists ==
    { <<<<"r", "i", "s", "e">>>>,
      <<<<"r", "i", "s", "e", "r", "s">>>>,
      <<<<"R", "I", "S", "E", "S">>>>,
      <<<<"r", "i", "s", "U+00E9">>>> }

\* the lines a player may type
GameInputs ==
    { rises \o <<"\n">>,
      sises \o <<"\n">>,
      sires \o <<"\n">>,
      <<" ", "R", "i", "S", "e", "s", " ", "\n">>,
      rises,
      <<"r", "i", "s", "e", "\n">>,
      <<"r", "i", "s", "e", "r", "s", "\n">>,
      <<"r", "i", "s", "U+00E9", "\n">>,
      <<"r", "i", "s", "U+00C9", "\n">>,
      <<"r", "i", "s", "U+00E9", "s", "\n">>,
      <<"U+0130", "s", "e", "s", "\n">>,
      <<"\n">> }

Init ==
    /\ debug \in BOOLEAN
    /\ \E max \in 1..MaxGuesses, list \in GameLists :
           \E choice \in DOMAIN list : new(DefaultWordLength, max, list, choice)
    /\ pc = "api"
    /\ stdout = <<>>

Call ==
    /\ outcome # "panic"
    /\ guess_amount < max_guesses + MaxExtraGuesses
    /\ \E raw \in GameInputs : guess_word(raw)
    /\ UNCHANGED <<pc, stdout>>

Next == Call

Spec == Init /\ [][Next]_vars

\* the same game over any caller-supplied list
CustomInit ==
    /\ debug \in BOOLEAN
    /\ \E max \in 1..MaxGuesses, list \in GameLists \cup CustomLists :
           \E choice \in DOMAIN list : new(DefaultWordLength, max, list, choice)
    /\ pc = "api"
    /\ stdout = <<>>

CustomSpec == CustomInit /\ [][Next]_vars

(***************************************************************************)
(* The scorer: one guess on a fresh game built as the test builds it.      *)
(***************************************************************************)

WordLength == 3
TestMaxGuesses == 1

ScoreLetters == {"a", "b", "c"}
ScoreChars == ScoreLetters \cup {"A", " ", "U+00E9"}

\* the strings over S of length n
Words(S, n) == [1..n -> S]

ScoreInputs == UNION { Words(ScoreChars, n) : n \in 0..(WordLength + 1) }

\* cargo's test build sets no cfg flag named debug
ScoreInit ==
    /\ debug = FALSE
    /\ \E w \in Words(ScoreLetters, WordLength) :
           new(WordLength, TestMaxGuesses, <<w>>, 1)
    /\ pc = "api"
    /\ stdout = <<>>

\* the single guess_word call of the test, on the game as constructed
Guess ==
    /\ outcome = "new"
    /\ \E raw \in ScoreInputs : guess_word(raw)
    /\ UNCHANGED <<pc, stdout>>

ScoreNext == Guess

ScoreSpec == ScoreInit /\ [][ScoreNext]_vars

(***************************************************************************)
(* The program: main's loop on a game with the default settings.  stdout   *)
(* holds the win and loss messages only, not the boards printed between    *)
(* them.  pc is "loop", "read" or "solved?" inside the loop, "exit" after  *)
(* a break, "error" after main returned a read error and "panic" after an  *)
(* abort.                                                                  *)
(***************************************************************************)

DefaultMaxGuesses == 5

\* what read_line leaves in the buffer: a line, or nothing at end of input
Lines == GameInputs \cup {<<>>}

\* Wordle::new(WordleSettings::default())
MainInit ==
    /\ debug \in BOOLEAN
    /\ \E list \in GameLists :
           \E choice \in DOMAIN list :
               new(DefaultWordLength, DefaultMaxGuesses, list, choice)
    /\ pc = "loop"
    /\ stdout = <<>>

\* the top of the loop that never takes the failed branch
CheckFailedNever ==
    /\ pc = "loop"
    /\ pc' = "read"
    /\ UNCHANGED <<settings, word_list, word, guesses, solved, debug, input,
                   outcome, stdout>>

\* the top of the loop: if game.is_failed() { println!(NoGuessesLeft); break }
CheckFailed ==
    /\ pc = "loop"
    /\ IF is_failed
       THEN /\ stdout' = Append(stdout, "NoGuessesLeft")
            /\ pc' = "exit"
       ELSE /\ stdout' = stdout
            /\ pc' = "read"
    /\ UNCHANGED <<settings, word_list, word, guesses, solved, debug, input,
                   outcome>>

\* read_line(&mut guess)? and game.guess_word(guess): when read_line fails
\* (standard input that is not UTF-8 or cannot be read) main returns the
\* error without calling guess_word; a panic of guess_word ends the process
ReadGuess ==
    /\ pc = "read"
    /\ \/ /\ pc' = "error"
          /\ UNCHANGED <<settings, word_list, word, guesses, solved, debug,
                         input, outcome>>
       \/ /\ \E raw \in Lines : guess_word(raw)
          /\ pc' = IF outcome' = "panic" THEN "panic" ELSE "solved?"
    /\ UNCHANGED stdout

\* if game.is_solved() { println!("you won!..."); break }
CheckSolved ==
    /\ pc = "solved?"
    /\ IF is_solved
       THEN /\ stdout' = Append(stdout, "won")
            /\ pc' = "exit"
       ELSE /\ stdout' = stdout
            /\ pc' = "loop"
    /\ UNCHANGED <<settings, word_list, word, guesses, solved, debug, input,
                   outcome>>

MainNext == CheckFailed \/ ReadGuess \/ CheckSolved

MainSpec == MainInit /\ [][MainNext]_vars

\* main runs on while it can, and the player types a line whenever main
\* reads one
FairMainSpec ==
    /\ MainSpec
    /\ WF_vars(CheckFailed)
    /\ WF_vars(ReadGuess)
    /\ WF_vars(CheckSolved)

(***************************************************************************)
(* Properties.                                                             *)
(***************************************************************************)

\* the normalized guess of the latest call, and the classified guess it recorded
G == normalize(input)
Last == guesses[Len(guesses)]
L == settings.word_length

Min(a, b) == IF a < b THEN a ELSE b

\* the number of positions of string s holding c
Occurrences(c, s) == Cardinality({i \in DOMAIN s : s[i] = c})

\* the number of the first L positions of G holding c that Last marks with one of occs
Marked(c, occs) ==
    Cardinality({i \in 1..L : G[i] = c /\ Last[i].occurrence \in occs})

\* the letters a classified guess spells
Letters(cg) == [i \in DOMAIN cg |-> cg[i].letter]

\* C1: in the classified guess recorded for an accepted guess G, position i is
\* Correct exactly when G[i] equals the secret's letter at i, for every i.
C1_CorrectIffEqual ==
    outcome = "scored" =>
        \A i \in 1..L : (Last[i].occurrence = "Correct") <=> (G[i] = word[i])

\* a recorded guess with a Correct position and a position holding a letter of
\* the secret that is not Correct
C1_Witness ==
    /\ outcome = "scored"
    /\ \E i \in 1..L : Last[i].occurrence = "Correct"
    /\ \E i \in 1..L : G[i] # word[i] /\ \E j \in 1..L : G[i] = word[j]

\* C2: for every letter c of an accepted guess G, the positions of G holding c
\* that are marked Correct or Present number min(occurrences of c in G,
\* occurrences of c in the secret), and all the other positions holding c are
\* Wrong.
C2_MarkedUpToSecretCount ==
    outcome = "scored" =>
        \A i \in 1..L :
            LET c == G[i]
                m == Min(Occurrences(c, G), Occurrences(c, word))
            IN /\ Marked(c, {"Correct", "Present"}) = m
               /\ Marked(c, {"Wrong"}) = Occurrences(c, G) - m

\* a recorded guess holding a letter more often than the secret does, with
\* one occurrence marked Present and one marked Wrong
C2_Witness ==
    /\ outcome = "scored"
    /\ \E i \in 1..L :
           /\ Occurrences(G[i], G) > Occurrences(G[i], word)
           /\ Marked(G[i], {"Present"}) >= 1
           /\ Marked(G[i], {"Wrong"}) >= 1

\* C3: a call whose trimmed, lower-cased input is the secret is accepted,
\* records a classified guess with every position Correct and sets
\* is_solved, for any secret.
C3_SecretWins ==
    (outcome # "new" /\ G = word) =>
        /\ outcome = "scored"
        /\ Letters(Last) = word
        /\ \A i \in 1..L : Last[i].occurrence = "Correct"
        /\ is_solved

\* C4: the number of recorded guesses is at most max_guesses in every state.
C4_AtMostMaxGuesses == guess_amount <= max_guesses

\* C5: is_solved and is_failed are never both true.
C5_SolvedNotFailed == ~(is_solved /\ is_failed)

\* C6: a call whose trimmed, lower-cased input has a byte length other than
\* the configured word length is rejected with WrongLength, and the history,
\* guess_amount, is_solved and is_failed are what they were before the call.
C6_WrongLengthRejected ==
    [][ len(normalize(input')) # settings.word_length =>
            /\ outcome' = "WrongLength"
            /\ guesses' = guesses
            /\ guess_amount' = guess_amount
            /\ is_solved' = is_solved
            /\ is_failed' = is_failed ]_vars

\* a guess of the wrong length was rejected on a game with a recorded guess
C6_Witness ==
    /\ outcome = "WrongLength"
    /\ guess_amount >= 1
    /\ Len(G) = settings.word_length

\* C7: in a build without the debug flag, a call whose normalized guess has
\* the configured length and is not in the word list ends with NotAWord and
\* leaves the history and guess_amount unchanged.
C7_NotAWordEnforced ==
    [][ (~debug
            /\ len(normalize(input')) = settings.word_length
            /\ Len(normalize(input')) = settings.word_length
            /\ ~contains(word_list, normalize(input'))) =>
            /\ outcome' = "NotAWord"
            /\ guesses' = guesses
            /\ guess_amount' = guess_amount ]_vars

\* C8: once the game is solved or the budget is used, a call with a guess of
\* the configured length leaves the history unchanged.
C8_TerminalNotScored ==
    [][ ((is_solved \/ guess_amount = max_guesses)
            /\ len(normalize(input')) = settings.word_length) =>
            guesses' = guesses ]_vars

\* C9: before max_guesses guesses are recorded is_failed is false, and when
\* exactly max_guesses are recorded and none spells the secret, is_failed is
\* true and is_solved is false.
C9_Exhaustion ==
    /\ guess_amount < max_guesses => ~is_failed
    /\ (guess_amount = max_guesses
            /\ \A k \in 1..guess_amount : Letters(guesses[k]) # word) =>
           (is_failed /\ ~is_solved)

\* a budget of at least two guesses used up by guesses other than the secret
C9_Witness ==
    /\ max_guesses >= 2
    /\ guess_amount = max_guesses
    /\ \A k \in 1..guess_amount : Letters(guesses[k]) # word
    /\ Len(word) = L
    /\ is_failed

\* C10: once is_failed is true it is true after every later call.
C10_FailedStays == [][ is_failed => is_failed' ]_vars

\* C11: every call leaves the history as it was or appends exactly one
\* classified guess to it, keeping every earlier entry, and the secret and the
\* word list never change.
C11_AppendOnly ==
    [][ /\ \/ guesses' = guesses
           \/ /\ guess_amount' = guess_amount + 1
              /\ SubSeq(guesses', 1, guess_amount) = guesses
        /\ guess_amount' >= guess_amount
        /\ word' = word
        /\ word_list' = word_list ]_vars

\* a history of two different classified guesses
C11_Witness ==
    /\ guess_amount >= 2
    /\ guesses[1] # guesses[2]
    /\ outcome = "scored"

\* C12: a guess that equals the secret up to letter case is scored all
\* Correct and sets is_solved.
C12_CaseInsensitive ==
    (outcome # "new" /\ G = to_lowercase(word) /\ Len(word) = L /\ len(word) = L) =>
        /\ outcome = "scored"
        /\ \A i \in 1..L : Last[i].occurrence = "Correct"
        /\ is_solved

\* C13: the secret has as many characters as settings.word_length.
C13_SecretHasWordLength == Len(word) = settings.word_length

\* the occurrences of a classified guess, in order
Occurrence(cg) == [i \in DOMAIN cg |-> cg[i].occurrence]

\* the latest call scored the guess "sises" against the secret "rises"
SisesAgainstRises == outcome = "scored" /\ word = rises /\ G = sises

\* C14 as stated: "sises" against "rises" is Wrong, Correct, Wrong, Correct,
\* Wrong.
C14_SisesAsStated ==
    SisesAgainstRises =>
        Occurrence(Last) = <<"Wrong", "Correct", "Wrong", "Correct", "Wrong">>

\* C14 as amended: "sises" against "rises" is Wrong, Correct, Correct,
\* Correct, Correct.
C14_SisesAsScored ==
    SisesAgainstRises =>
        Occurrence(Last) = <<"Wrong", "Correct", "Correct", "Correct", "Correct">>

\* "sises" was typed, with its newline, and scored against "rises"
C14_Witness == SisesAgainstRises /\ input = sises \o <<"\n">>

\* the positions of the secret holding c that no Correct match used
Unmatched(c) ==
    {j \in DOMAIN word : word[j] = c /\ (j > L \/ G[j] # word[j])}

\* the positions of the guess up to i that hold c and are not Correct
NotCorrectUpTo(c, i) == {j \in 1..i : G[j] = c /\ G[j] # word[j]}

\* C15: among the positions of the guess that are not Correct and hold c, the
\* leftmost ones, as many as the secret has occurrences of c outside Correct
\* matches, are Present and the later ones are Wrong.
C15_LeftmostPresent ==
    outcome = "scored" =>
        \A i \in 1..L :
            G[i] # word[i] =>
                Last[i].occurrence =
                    IF Cardinality(NotCorrectUpTo(G[i], i)) <= Cardinality(Unmatched(G[i]))
                    THEN "Present"
                    ELSE "Wrong"

\* two positions that are not Correct hold the same letter: the left one is
\* Present and the right one Wrong
C15_Witness ==
    /\ outcome = "scored"
    /\ \E i, j \in 1..L :
           /\ i < j
           /\ G[i] = G[j]
           /\ Last[i].occurrence = "Present"
           /\ Last[j].occurrence = "Wrong"

\* C18: is_solved is true exactly when a recorded guess spells the secret,
\* and, for a secret of the configured length, exactly when a recorded guess
\* has every position Correct.
C18_SolvedIffSecretRecorded ==
    /\ is_solved <=> \E k \in 1..guess_amount : Letters(guesses[k]) = word
    /\ Len(word) = L =>
           (is_solved <=>
               \E k \in 1..guess_amount :
                   \A i \in 1..L : guesses[k][i].occurrence = "Correct")

\* the secret was recorded and another guess was recorded after it
C18_Witness ==
    /\ is_solved
    /\ guess_amount >= 2
    /\ Letters(guesses[1]) = word
    /\ Letters(guesses[2]) # word

\* C19: no guess_word call ends in an out-of-range index.
C19_NoIndexPanic == outcome # "panic"

\* the number of loss messages printed
LossMessages == Cardinality({k \in DOMAIN stdout : stdout[k] = "NoGuessesLeft"})

\* the secret is among the recorded guesses
SecretSubmitted == \E k \in 1..guess_amount : Letters(guesses[k]) = word

\* the process has ended after the lines it read: main left the loop, or a
\* panic aborted it (a read error, pc = "error", is not an input line)
Ended == pc \in {"exit", "panic"}

\* C16: main prints the loss message at most once and only when the budget is
\* used without the secret among the guesses, a session that has ended has
\* printed exactly one outcome message, and when the secret was the last
\* guess of the budget that message is the win message.
C16_OneOutcomeMessage ==
    /\ LossMessages <= 1
    /\ LossMessages = 1 => (guess_amount = max_guesses /\ ~SecretSubmitted)
    /\ Ended => Len(stdout) = 1
    /\ (Ended /\ guess_amount = max_guesses /\ SecretSubmitted) => stdout = <<"won">>

\* C17: under main's loop guess_word is called only on a game that is neither
\* solved nor exhausted, and guess_amount never exceeds max_guesses.
C17_MainKeepsBudget ==
    /\ guess_amount <= max_guesses
    /\ pc = "read" => (~is_solved /\ ~is_failed)

\* main used the whole budget and printed the loss message
C17_Witness ==
    /\ pc = "exit"
    /\ guess_amount = max_guesses
    /\ stdout = <<"NoGuessesLeft">>

\* main has just read a line that guess_word rejected
Rejected == pc = "solved?" /\ outcome \in {"WrongLength", "NotAWord"}

\* C20: main eventually prints the win or the loss message and leaves the
\* loop, unless the player types rejected lines for ever or the input stops
\* supplying lines (a read error).
C20_Terminates ==
    <>(pc = "exit" /\ Len(stdout) = 1) \/ []<>Rejected \/ <>(pc = "error")

====
